---------------------------- MODULE Spec2Model ----------------------------
(***************************************************************************)
(* One render of the Mandelbrot program: the WM_PAINT handler of WndProc   *)
(* (the orchestrator), the WorkQueue of slices, and the pool of            *)
(* MandelbrotWorkerThread threads that drain it into the shared bitmap.    *)
(*                                                                         *)
(* The orchestrator and every worker are processes with a program counter; *)
(* one action is one step of the code between two points where another     *)
(* thread can be scheduled.  The pixel loop of a worker is one action per  *)
(* pixel, so that the abort flag and the other workers interleave with it. *)
(*                                                                         *)
(* bAbort is a plain BOOL shared without synchronisation.  A worker's read *)
(* that races with the orchestrator's store returns the old or the new     *)
(* value; both outcomes are the interleavings in which the read comes      *)
(* before or after the store, so the read is modelled as one atomic step.  *)
(*                                                                         *)
(* The escape-time loop a worker runs for each pixel is modelled on its    *)
(* own, for one point and one budget at a time (KernelSpec), over a binary *)
(* floating-point arithmetic that rounds as double arithmetic does.  The   *)
(* same loop on TTMath numbers runs over the same arithmetic at a wider    *)
(* mantissa.                                                               *)
(*                                                                         *)
(* The colour a worker stores for an iteration count is modelled on its    *)
(* own too (PaletteSpec), for one count and one budget at a time.          *)
(*                                                                         *)
(* The handlers that read or write the ten parameters and the recall       *)
(* stack (mouse wheel, left and right button, File Open, File Save, the    *)
(* Parameters dialog) are one action each (SessionSpec); a render is not   *)
(* part of that specification, only the request to repaint.                *)
(*                                                                         *)
(* Three more parts are modelled on their own: hsv2rgb for one colour at a *)
(* time (HsvSpec), ReverseRGBBytes for one word at a time (ReverseSpec),   *)
(* and the shift key holding back WM_PAINT (HoldSpec).  The life of one    *)
(* ApplicationRegistry object, as InitInstance and WM_DESTROY use it, is   *)
(* RegistrySpec.                                                           *)
(***************************************************************************)
EXTENDS Integers, Sequences, FiniteSets, TLC

\* Bounds of the model: the pixel count of the client area, the slice count
\* and the pool size the user can configure.
MaxArea == 7
MaxSlices == 2
MaxThreads == 2

\* Bounds of the kernel runs: the iteration budget, the mantissa bits of the
\* binary floating-point format (a double has 53; the operations below round
\* the same way at every width) and the smallest power of two, 2^-MaxShift,
\* among the coordinates tried.
MaxIterations == 3
Precision == 4
MaxShift == 3

\* Mantissa bits of the doubles of the colour stage.  It divides 2^24 by the
\* budget and drops the fraction of the result, so the width keeps what
\* matters of a double there: a last place below 1 at 2^24.
PalettePrecision == 26

\* static int Iterations = 1000
DefaultIterations == 1000

\* Bound of the sessions: the nodes the recall stack can hold.
MaxDepth == 2

\* Bounds of the key and paint messages: the renders started and the times
\* the shift key goes down.
MaxRenders == 3
MaxHolds == 3

\* Mantissa bits of a ttmath::Big<1, 4> in the model: three times those of a
\* double (four 64-bit words against 53 bits in the program).
BigPrecision == 12

\* The orchestrator (the thread running WndProc) as a mutex owner.
MainThread == 0

\* Number of WorkItem nodes the heap can hold before new WorkItem fails.
\* Every terminating slice loop allocates at most MaxArea nodes.
HeapItems == MaxArea + 1

VARIABLES
    MaxPixel,    \* WM_PAINT local: (rect.bottom - tm.tmHeight) * rect.right
    Slices,      \* static int Slices
    Threads,     \* static int Threads
    pc,          \* position of the orchestrator in WM_PAINT
    StartPixel,  \* WM_PAINT local
    EndPixel,    \* WM_PAINT local
    Thread,      \* WM_PAINT loop counter: threads created so far
    allocated,   \* every WorkItem ever allocated, in allocation order
    queue,       \* the list from _head (first) to _tail (last), as node ids
    hcsMutex,    \* set of threads owning the mutex (empty: not owned)
    bAbort,      \* BOOL bAbort of WM_PAINT, read through P->pbAbort
    pcW,         \* position of each worker thread
    wItem,       \* worker: the node _tail pointed at when Dequeue read it
    wStartPixel, \* worker local StartPixel
    wEndPixel,   \* worker local EndPixel
    bWorkToDo,   \* worker local
    Pixel,       \* worker local loop variable
    writers,     \* history: which workers stored to BitmapData[i]
    deqLog,      \* history: successful Dequeue returns, in order
    kernel,      \* one run of the escape-time loop, outside any render
    palette,     \* the colour stage on its own: one call per step
    session      \* the parameters, the recall stack and the saved file

vars == <<MaxPixel, Slices, Threads, pc, StartPixel, EndPixel,
          Thread, allocated, queue, hcsMutex, bAbort, pcW, wItem,
          wStartPixel, wEndPixel, bWorkToDo, Pixel, writers, deqLog,
          kernel, palette, session>>

\* What a render leaves alone.
aside == <<kernel, palette, session>>

inputs == <<MaxPixel, Slices, Threads>>
mainVars == <<pc, StartPixel, EndPixel, Thread>>
workerLocals == <<wItem, wStartPixel, wEndPixel, bWorkToDo, Pixel>>

Workers == 1..Threads

Min(a, b) == IF a < b THEN a ELSE b

\* PixelStepSize = MaxPixel / Slices;
PixelStepSize == MaxPixel \div Slices

Pixels == 0..(MaxPixel - 1)

-----------------------------------------------------------------------------
(* WorkQueue *)

WorkItem(s, e) == [StartPixel |-> s, EndPixel |-> e]

\* Faulty variant: the new node is linked behind _tail.
EnqueueAtTail(q, id) == q \o <<id>>

\* WorkQueue::Enqueue links the new node in front of _head.
Enqueue(q, id) == <<id>> \o q

\* WorkQueue::Dequeue: _tail == NULL
QueueEmpty(q) == Len(q) = 0

\* The node _tail points at.
TailItem(q) == q[Len(q)]

\* Faulty variant: the node stays linked.
UnlinkKeepsTail(q) == q

\* WorkQueue::Dequeue unlinks and deletes the node at _tail.
Unlink(q) == IF Len(q) = 0 THEN q ELSE SubSeq(q, 1, Len(q) - 1)

-----------------------------------------------------------------------------
(* double arithmetic: binary floating point, round to nearest, ties to even. *)
(* A number is m * 2^e with m odd, or m = 0 and e = 0.  No exponent range is *)
(* modelled: the kernel leaves the loop long before a double overflows.      *)
(* Every operation takes the mantissa width p it rounds to.                  *)

Abs(n) == IF n < 0 THEN -n ELSE n

Max(a, b) == IF a >= b THEN a ELSE b

RECURSIVE Normal(_, _)
Normal(m, e) ==
    IF m = 0 THEN [m |-> 0, e |-> 0]
    ELSE IF m % 2 = 0 THEN Normal(m \div 2, e + 1)
    ELSE [m |-> m, e |-> e]

\* Number of bits of n >= 0.
RECURSIVE BitLength(_)
BitLength(n) == IF n = 0 THEN 0 ELSE 1 + BitLength(n \div 2)

\* Number of low bits of n >= 0 that do not fit in a mantissa of p bits.
RECURSIVE ExcessAt(_, _)
ExcessAt(p, n) == IF n < 2^p THEN 0 ELSE 1 + ExcessAt(p, n \div 2)

Excess(n) == ExcessAt(Precision, n)

\* The number of p mantissa bits nearest to n * 2^e for n >= 0.
RoundMagnitudeAt(p, n, e) ==
    LET s == ExcessAt(p, n)
        q == n \div 2^s
        r == n % 2^s
    IN  IF s = 0 THEN Normal(n, e)
        ELSE IF r > 2^(s - 1) \/ (r = 2^(s - 1) /\ q % 2 = 1)
             THEN Normal(q + 1, e + s)
             ELSE Normal(q, e + s)

\* The double nearest to n * 2^e for n >= 0.
RoundMagnitude(n, e) == RoundMagnitudeAt(Precision, n, e)

Neg(a) == [m |-> -a.m, e |-> a.e]

\* The number of p mantissa bits nearest to n * 2^e.
RoundAt(p, n, e) ==
    IF n < 0 THEN Neg(RoundMagnitudeAt(p, -n, e))
    ELSE RoundMagnitudeAt(p, n, e)

\* The double nearest to n * 2^e.
Round(n, e) == RoundAt(Precision, n, e)

\* a + b at p bits.  The operand with the higher leading bit is put on a
\* grid two places below its last place; what the other operand has below
\* the grid only tells on which side of a grid point the sum lies, so one
\* more place, set to 1, stands for it.
AddAt(p, a, b) ==
    IF a.m = 0 THEN b
    ELSE IF b.m = 0 THEN a
    ELSE LET ta == a.e + BitLength(Abs(a.m))
             tb == b.e + BitLength(Abs(b.m))
             hi == IF ta >= tb THEN a ELSE b
             lo == IF ta >= tb THEN b ELSE a
             g == Min(hi.e, Max(lo.e, Max(ta, tb) - p - 2))
             H == hi.m * 2^(hi.e - g)
             d == g - lo.e
         IN  IF d <= 0 THEN RoundAt(p, H + lo.m * 2^(-d), g)
             ELSE LET L == Abs(lo.m) \div 2^Min(d, 30)
                      s == IF lo.m < 0 THEN -1 ELSE 1
                  IN  RoundAt(p, 2 * H + s * (2 * L + 1), g - 1)

\* a * b at p bits.  A product of more than 30 bits is the sum of the two
\* products with the halves of the wider mantissa.
MulAt(p, a, b) ==
    LET wide == IF Abs(a.m) >= Abs(b.m) THEN a.m ELSE b.m
        other == IF Abs(a.m) >= Abs(b.m) THEN b.m ELSE a.m
        h == BitLength(Abs(wide)) \div 2
        s == IF wide < 0 THEN -1 ELSE 1
        upper == s * (Abs(wide) \div 2^h)
        lower == s * (Abs(wide) % 2^h)
    IN  IF BitLength(Abs(a.m)) + BitLength(Abs(b.m)) <= 30
        THEN RoundAt(p, a.m * b.m, a.e + b.e)
        ELSE AddAt(p, Normal(upper * other, a.e + b.e + h),
                      Normal(lower * other, a.e + b.e))

\* The quotient of q + r/d by long division, one bit at a time, until q has
\* the given number of bits; k counts the bits added.
RECURSIVE LongDivide(_, _, _, _, _)
LongDivide(q, r, d, bits, k) ==
    IF BitLength(q) >= bits THEN [q |-> q, r |-> r, k |-> k]
    ELSE IF 2 * r >= d THEN LongDivide(2 * q + 1, 2 * r - d, d, bits, k + 1)
    ELSE LongDivide(2 * q, 2 * r, d, bits, k + 1)

\* a / b at p bits, for b other than zero.  The quotient is cut two places
\* below the last one and a place set to 1 stands for a remainder.
DivAt(p, a, b) ==
    IF a.m = 0 THEN a
    ELSE LET s == IF (a.m < 0) = (b.m < 0) THEN 1 ELSE -1
             D == LongDivide(Abs(a.m) \div Abs(b.m), Abs(a.m) % Abs(b.m),
                             Abs(b.m), p + 2, 0)
             sticky == IF D.r = 0 THEN 0 ELSE 1
         IN  RoundAt(p, s * (2 * D.q + sticky), a.e - b.e - D.k - 1)

SubAt(p, a, b) == AddAt(p, a, Neg(b))

\* a <= b: the rounded difference has the sign of the exact one.
LessEqAt(p, a, b) == SubAt(p, a, b).m <= 0

\* (int)a and (COLORREF)a: the fraction is dropped.
Truncate(a) ==
    IF a.e >= 0 THEN a.m * 2^a.e
    ELSE IF a.m < 0 THEN -(Abs(a.m) \div 2^Min(-a.e, 30))
    ELSE a.m \div 2^Min(-a.e, 30)

\* a * b
Mul(a, b) == MulAt(Precision, a, b)

\* a + b
Add(a, b) == AddAt(Precision, a, b)

\* a - b
Sub(a, b) == SubAt(Precision, a, b)

\* a <= b
LessEq(a, b) == LessEqAt(Precision, a, b)

\* The literals 0.0 and 4.0.
Zero == Normal(0, 0)
Four == Normal(4, 0)

-----------------------------------------------------------------------------
(* The escape-time loop of MandelbrotWorkerThread, for one point *)

\* x = 0.0; y = 0.0; x2 = 0.0; y2 = 0.0; iteration = 0;
KernelStart(x0, y0, n) ==
    [pc |-> "loop", x0 |-> x0, y0 |-> y0, Iterations |-> n,
     x |-> Zero, y |-> Zero, x2 |-> Zero, y2 |-> Zero, iteration |-> 0]

\* No kernel run is looked at.
KernelIdle == [pc |-> "idle"]

\* No call of the colour stage is looked at.
PaletteIdle == [pc |-> "idle"]

\* No session of the user is looked at.
SessionIdle == [pc |-> "idle"]

\* Faulty variant: only the real part is compared with the radius.
InsideRadiusRealOnly(k) == LessEq(k.x2, Four)

\* x2 + y2 <= 4.0
InsideRadius(k) == LessEq(Add(k.x2, k.y2), Four)

\* Faulty variant: the budget test lets one more pass through.
WithinBudgetInclusive(k) == k.iteration <= k.Iterations

\* Faulty variant: the budget test stops one pass early.
WithinBudgetOneShort(k) == k.iteration + 1 < k.Iterations

\* iteration < Iterations
WithinBudget(k) == k.iteration < k.Iterations

\* while (x2 + y2 <= 4.0 && iteration < Iterations)
WhileCondition(k) == InsideRadius(k) /\ WithinBudget(k)

\* The loop body.
Iterate(k) ==
    LET y == Add(Mul(Add(k.x, k.x), k.y), k.y0)
        x == Add(Sub(k.x2, k.y2), k.x0)
    IN  [k EXCEPT !.y = y, !.x = x, !.x2 = Mul(x, x), !.y2 = Mul(y, y),
                  !.iteration = k.iteration + 1]

\* The operators of ttmath::Big<1, 4>: the same arithmetic with a wider
\* mantissa.
BigAdd(a, b) == AddAt(BigPrecision, a, b)
BigSub(a, b) == SubAt(BigPrecision, a, b)
BigMul(a, b) == MulAt(BigPrecision, a, b)
BigLessEq(a, b) == LessEqAt(BigPrecision, a, b)

\* Faulty variant: only the real part is compared with the radius.
TTInsideRadiusRealOnly(k) == BigLessEq(k.x2, Four)

\* xx2 + yy2 <= 4.0
TTInsideRadius(k) == BigLessEq(BigAdd(k.x2, k.y2), Four)

\* The loop body of the TTMath branch.
TTIterate(k) ==
    LET y == BigAdd(BigMul(BigAdd(k.x, k.x), k.y), k.y0)
        x == BigAdd(BigSub(k.x2, k.y2), k.x0)
    IN  [k EXCEPT !.y = y, !.x = x, !.x2 = BigMul(x, x),
                  !.y2 = BigMul(y, y), !.iteration = k.iteration + 1]

\* while (xx2 + yy2 <= 4.0 && iteration < Iterations) { ... }
RECURSIVE TTRun(_)
TTRun(k) ==
    IF TTInsideRadius(k) /\ WithinBudget(k) THEN TTRun(TTIterate(k)) ELSE k

\* The iteration count of the TTMath branch for the point and the budget.
TTMathCount(x0, y0, n) == TTRun(KernelStart(x0, y0, n)).iteration

-----------------------------------------------------------------------------
(* The orchestrator: WndProc, case WM_PAINT *)

\* What a read of memory that was never written can return: the fill
\* pattern 0xCDCDCDCD of the debug heap, or a zero page.
IndeterminateInt == {-842150451, 0}

\* A bitmap cell as new uint32_t[] leaves it.
Uninitialized == [written |-> FALSE, Pixel |-> 0]

\* The colour the kernel and the palette give pixel index i.  Every worker
\* gets the same viewport, size and Iterations in its parameters, and the
\* palette switches are globals, so the colour is a term over the index.
Colour(i) == [written |-> TRUE, Pixel |-> i]

\* The shared bitmap: P->BitmapData[Pixel] = colour is the only store to it,
\* so a cell some worker stored to holds the colour of its index.
BitmapData ==
    [i \in Pixels |-> IF writers[i] = {} THEN Uninitialized ELSE Colour(i)]

\* Faulty variant: the mutex is created without an owner.
CreateMutexUnowned == {}

\* CreateMutex(NULL, TRUE, name): the thread running WM_PAINT owns it.
CreateMutexOwned == {MainThread}

\* The locals of WM_PAINT and of the threads before the slice loop.
RenderStart ==
    /\ StartPixel = 0
    /\ EndPixel = PixelStepSize
    /\ Thread = 0
    /\ allocated = <<>>
    /\ queue = <<>>
    /\ hcsMutex = CreateMutexOwned
    /\ bAbort = FALSE
    /\ pcW = [w \in Workers |-> "unborn"]
    /\ wItem = [w \in Workers |-> 0]
    /\ wStartPixel = [w \in Workers |-> 0]
    /\ wEndPixel = [w \in Workers |-> 0]
    /\ bWorkToDo = [w \in Workers |-> FALSE]
    /\ Pixel = [w \in Workers |-> 0]
    /\ writers = [i \in Pixels |-> {}]
    /\ deqLog = <<>>

Init ==
    /\ MaxPixel \in 0..MaxArea
    /\ Slices \in 1..MaxSlices
    /\ Threads \in 1..MaxThreads
    /\ pc = "enqueue"
    /\ RenderStart
    /\ kernel = KernelIdle
    /\ palette = PaletteIdle
    /\ session = SessionIdle

\* The body and the step of the slice loop: one Enqueue, then the walk.
EnqueueSlice ==
    /\ pc = "enqueue"
    /\ EndPixel < MaxPixel
    /\ Len(allocated) < HeapItems
    /\ allocated' = Append(allocated, WorkItem(StartPixel, EndPixel))
    /\ queue' = Enqueue(queue, Len(allocated) + 1)
    /\ StartPixel' = StartPixel + PixelStepSize
    /\ EndPixel' = Min(EndPixel + PixelStepSize, MaxPixel)
    /\ UNCHANGED <<inputs, aside, pc, Thread, hcsMutex, bAbort, pcW,
                   workerLocals, writers, deqLog>>

\* new WorkItem fails once the heap is exhausted: the exception ends the
\* process.
EnqueueOutOfMemory ==
    /\ pc = "enqueue"
    /\ EndPixel < MaxPixel
    /\ Len(allocated) >= HeapItems
    /\ pc' = "oom"
    /\ UNCHANGED <<inputs, aside, StartPixel, EndPixel, Thread, allocated,
                   queue, hcsMutex, bAbort, pcW, workerLocals, writers, deqLog>>

\* Start of the slice enqueued after the loop.
LastSliceStart == EndPixel - PixelStepSize + 1

\* The loop condition fails; "Get the last little bit."
EnqueueLast ==
    /\ pc = "enqueue"
    /\ ~(EndPixel < MaxPixel)
    /\ IF EndPixel - PixelStepSize < MaxPixel
       THEN /\ allocated' = Append(allocated, WorkItem(LastSliceStart, MaxPixel))
            /\ queue' = Enqueue(queue, Len(allocated) + 1)
       ELSE UNCHANGED <<allocated, queue>>
    /\ pc' = "spawn"
    /\ UNCHANGED <<inputs, aside, StartPixel, EndPixel, Thread, hcsMutex,
                   bAbort, pcW, workerLocals, writers, deqLog>>

\* One pass of the pool loop: CreateThread starts MandelbrotWorkerThread.
CreateThread ==
    /\ pc = "spawn"
    /\ Thread < Threads
    /\ pcW' = [pcW EXCEPT ![Thread + 1] = "check"]
    /\ Thread' = Thread + 1
    /\ UNCHANGED <<inputs, aside, pc, StartPixel, EndPixel, allocated, queue,
                   hcsMutex, bAbort, workerLocals, writers, deqLog>>

\* ReleaseMutex(hcsMutex) by the thread that created it owned.
ReleaseHeldThreads ==
    /\ pc = "spawn"
    /\ ~(Thread < Threads)
    /\ hcsMutex' = hcsMutex \ {MainThread}
    /\ pc' = "wait"
    /\ UNCHANGED <<inputs, aside, StartPixel, EndPixel, Thread, allocated,
                   queue, bAbort, pcW, workerLocals, writers, deqLog>>

\* Faulty variant: a wait for any one thread (bWaitAll FALSE).
WaitAny == \E w \in Workers : pcW[w] = "done"

\* WaitForMultipleObjects(Threads, phThreadArray, TRUE, 50) == WAIT_OBJECT_0:
\* with bWaitAll every thread handle is signalled, i.e. every thread returned.
AllSignaled == \A w \in Workers : pcW[w] = "done"

WaitCompleted ==
    /\ pc = "wait"
    /\ AllSignaled
    /\ pc' = "teardown"
    /\ UNCHANGED <<inputs, aside, StartPixel, EndPixel, Thread, allocated,
                   queue, hcsMutex, bAbort, pcW, workerLocals, writers, deqLog>>

\* int getSlices() { return _Slices; }  No constructor or member function
\* ever stores to _Slices, so the read returns whatever the heap held.
getSlices == IndeterminateInt

\* The fifty milliseconds pass with some thread still running.  The progress
\* text drawn next, from int Slice = wq->getSlices(), is output only.
WaitTimeout ==
    /\ pc = "wait"
    /\ ~AllSignaled
    /\ pc' = "poll"
    /\ UNCHANGED <<inputs, aside, StartPixel, EndPixel, Thread, allocated,
                   queue, hcsMutex, bAbort, pcW, workerLocals, writers, deqLog>>

\* Faulty variant: any other message clears the flag.
AbortFollowsMessage(msg) == msg = "escape"

\* if (msg.message == WM_KEYDOWN && msg.wParam == VK_ESCAPE) bAbort = true;
AbortAfter(msg) == IF msg = "escape" THEN TRUE ELSE bAbort

\* PeekMessage: no message, the ESC key, or another one.
Poll ==
    /\ pc = "poll"
    /\ \E msg \in {"none", "escape", "other"} : bAbort' = AbortAfter(msg)
    /\ pc' = "wait"
    /\ UNCHANGED <<inputs, aside, StartPixel, EndPixel, Thread, allocated,
                   queue, hcsMutex, pcW, workerLocals, writers, deqLog>>

\* CloseHandle(hcsMutex), the thread handles and parameters, delete wq.
\* ~WorkQueue on a list that still has nodes stores through _head after
\* _head became NULL: undefined behaviour, which either faults or lets the
\* handler go on.
Teardown ==
    /\ pc = "teardown"
    /\ hcsMutex' = {}
    /\ queue' = <<>>
    /\ \/ pc' = "abortcheck"
       \/ ~QueueEmpty(queue) /\ pc' = "fault"
    /\ UNCHANGED <<inputs, aside, StartPixel, EndPixel, Thread, allocated,
                   bAbort, pcW, workerLocals, writers, deqLog>>

\* Faulty variant: the abort test is missing.
NeverAborted == FALSE

\* if (bAbort) break; // Case of user abort.
UserAbort == bAbort

\* The break, or SetDIBitsToDevice and the rest of the paint.
AbortCheck ==
    /\ pc = "abortcheck"
    /\ pc' = IF UserAbort THEN "aborted" ELSE "displayed"
    /\ UNCHANGED <<inputs, aside, StartPixel, EndPixel, Thread, allocated,
                   queue, hcsMutex, bAbort, pcW, workerLocals, writers, deqLog>>

-----------------------------------------------------------------------------
(* MandelbrotWorkerThread *)

\* Faulty variant: the worker never tests the flag.
AbortIgnored == FALSE

\* if (*(P->pbAbort)) return 0;
SeesAbort == bAbort

CheckAbort(w) ==
    /\ pcW[w] = "check"
    /\ pcW' = [pcW EXCEPT ![w] = IF SeesAbort THEN "done" ELSE "lock"]
    /\ UNCHANGED <<inputs, aside, mainVars, allocated, queue, hcsMutex,
                   bAbort, workerLocals, writers, deqLog>>

\* Faulty variant: the wait returns whoever owns the mutex.
MutexIgnored == TRUE

\* WaitForSingleObject returns once no thread owns the mutex.
MutexFree == hcsMutex = {}

EnterCriticalSection(w) ==
    /\ pcW[w] = "lock"
    /\ MutexFree
    /\ hcsMutex' = {w}
    /\ pcW' = [pcW EXCEPT ![w] = "dequeue"]
    /\ UNCHANGED <<inputs, aside, mainVars, allocated, queue, bAbort,
                   workerLocals, writers, deqLog>>

\* Faulty variant: an empty queue is reported as work to do.
TrueOnEmpty == TRUE

\* if (_tail == NULL) return false;
ReturnOnEmpty == FALSE

\* Dequeue up to the unlinking: the empty check and the copy of the slice.
DequeueRead(w) ==
    /\ pcW[w] = "dequeue"
    /\ IF QueueEmpty(queue)
       THEN /\ bWorkToDo' = [bWorkToDo EXCEPT ![w] = ReturnOnEmpty]
            /\ pcW' = [pcW EXCEPT ![w] = "unlock"]
            /\ UNCHANGED <<wItem, wStartPixel, wEndPixel>>
       ELSE /\ wItem' = [wItem EXCEPT ![w] = TailItem(queue)]
            /\ wStartPixel' = [wStartPixel EXCEPT
                                 ![w] = allocated[TailItem(queue)].StartPixel]
            /\ wEndPixel' = [wEndPixel EXCEPT
                               ![w] = allocated[TailItem(queue)].EndPixel]
            /\ pcW' = [pcW EXCEPT ![w] = "unlink"]
            /\ UNCHANGED bWorkToDo
    /\ UNCHANGED <<inputs, aside, mainVars, allocated, queue, hcsMutex,
                   bAbort, Pixel, writers, deqLog>>

\* The rest of Dequeue: the node leaves the list and true is returned.
DequeueUnlink(w) ==
    /\ pcW[w] = "unlink"
    /\ queue' = Unlink(queue)
    /\ bWorkToDo' = [bWorkToDo EXCEPT ![w] = TRUE]
    /\ deqLog' = Append(deqLog, [thread |-> w, item |-> wItem[w],
                                 aborted |-> bAbort])
    /\ pcW' = [pcW EXCEPT ![w] = "unlock"]
    /\ UNCHANGED <<inputs, aside, mainVars, allocated, hcsMutex, bAbort,
                   wItem, wStartPixel, wEndPixel, Pixel, writers>>

\* Faulty variant: the mutex stays owned.
ReleaseMutexKept(owners, w) == owners

\* ReleaseMutex(P->hcsMutex) by the thread that owns it.
ReleaseMutex(owners, w) == owners \ {w}

\* ReleaseMutex; if (!bWorkToDo) return 0; otherwise the pixel loop starts.
LeaveCriticalSection(w) ==
    /\ pcW[w] = "unlock"
    /\ hcsMutex' = ReleaseMutex(hcsMutex, w)
    /\ IF bWorkToDo[w]
       THEN /\ Pixel' = [Pixel EXCEPT ![w] = wStartPixel[w]]
            /\ pcW' = [pcW EXCEPT ![w] = "pixels"]
       ELSE /\ pcW' = [pcW EXCEPT ![w] = "done"]
            /\ UNCHANGED Pixel
    /\ UNCHANGED <<inputs, aside, mainVars, allocated, queue, bAbort, wItem,
                   wStartPixel, wEndPixel, bWorkToDo, writers, deqLog>>

\* Faulty variant: the flag is also tested inside the pixel loop.
MorePixelsUnlessAborted(w) == Pixel[w] < wEndPixel[w] /\ ~bAbort

\* Faulty variant: the loop also runs for Pixel == EndPixel.
MorePixelsInclusive(w) == Pixel[w] <= wEndPixel[w]

\* for (int Pixel = StartPixel; Pixel < EndPixel; ++Pixel)
MorePixels(w) == Pixel[w] < wEndPixel[w]

\* One pass of the pixel loop: P->BitmapData[Pixel] = colour.
StorePixel(w) ==
    /\ pcW[w] = "pixels"
    /\ MorePixels(w)
    /\ writers' = [i \in Pixels |->
                     IF i = Pixel[w] THEN writers[i] \cup {w} ELSE writers[i]]
    /\ Pixel' = [Pixel EXCEPT ![w] = Pixel[w] + 1]
    /\ UNCHANGED <<inputs, aside, mainVars, allocated, queue, hcsMutex,
                   bAbort, pcW, wItem, wStartPixel, wEndPixel, bWorkToDo,
                   deqLog>>

\* The pixel loop ends and the for (;;) loop starts over.
SliceDone(w) ==
    /\ pcW[w] = "pixels"
    /\ ~MorePixels(w)
    /\ pcW' = [pcW EXCEPT ![w] = "check"]
    /\ UNCHANGED <<inputs, aside, mainVars, allocated, queue, hcsMutex,
                   bAbort, workerLocals, writers, deqLog>>

Worker(w) ==
    \/ CheckAbort(w)
    \/ EnterCriticalSection(w)
    \/ DequeueRead(w)
    \/ DequeueUnlink(w)
    \/ LeaveCriticalSection(w)
    \/ StorePixel(w)
    \/ SliceDone(w)

Orchestrator ==
    \/ EnqueueSlice
    \/ EnqueueOutOfMemory
    \/ EnqueueLast
    \/ CreateThread
    \/ ReleaseHeldThreads
    \/ WaitCompleted
    \/ WaitTimeout
    \/ Poll
    \/ Teardown
    \/ AbortCheck

Next ==
    \/ EnqueueSlice
    \/ EnqueueOutOfMemory
    \/ EnqueueLast
    \/ CreateThread
    \/ ReleaseHeldThreads
    \/ WaitCompleted
    \/ WaitTimeout
    \/ Poll
    \/ Teardown
    \/ AbortCheck
    \/ \E w \in Workers : CheckAbort(w)
    \/ \E w \in Workers : EnterCriticalSection(w)
    \/ \E w \in Workers : DequeueRead(w)
    \/ \E w \in Workers : DequeueUnlink(w)
    \/ \E w \in Workers : LeaveCriticalSection(w)
    \/ \E w \in Workers : StorePixel(w)
    \/ \E w \in Workers : SliceDone(w)

Spec == Init /\ [][Next]_vars

-----------------------------------------------------------------------------
(* Runs of the escape-time loop on its own *)

\* The coordinates tried: zero and plus or minus 1 or 3 times a power of two
\* from 2^-MaxShift to 2.
Points ==
    {Zero} \cup {Normal(s * m, e) : s \in {-1, 1}, m \in {1, 3},
                                   e \in (-MaxShift)..1}

renderVars == <<MaxPixel, Slices, Threads, pc, StartPixel, EndPixel,
                Thread, allocated, queue, hcsMutex, bAbort, pcW,
                wItem, wStartPixel, wEndPixel, bWorkToDo, Pixel, writers,
                deqLog>>

\* No render is running; the loop starts for some point and budget.
KernelInit ==
    /\ MaxPixel = 0
    /\ Slices = 1
    /\ Threads = 1
    /\ pc = "idle"
    /\ RenderStart
    /\ \E x0 \in Points, y0 \in Points, n \in 0..MaxIterations :
          kernel = KernelStart(x0, y0, n)
    /\ palette = PaletteIdle
    /\ session = SessionIdle

\* One pass of the while loop.
KernelStep ==
    /\ kernel.pc = "loop"
    /\ WhileCondition(kernel)
    /\ kernel' = Iterate(kernel)
    /\ UNCHANGED <<renderVars, palette, session>>

\* The while condition fails: iteration is the result.
KernelExit ==
    /\ kernel.pc = "loop"
    /\ ~WhileCondition(kernel)
    /\ kernel' = [kernel EXCEPT !.pc = "done"]
    /\ UNCHANGED <<renderVars, palette, session>>

KernelNext ==
    \/ KernelStep
    \/ KernelExit

KernelSpec == KernelInit /\ [][KernelNext]_vars

\* The scheduler runs every thread that can take a step.
FairSpec ==
    /\ Spec
    /\ WF_vars(Orchestrator)
    /\ \A w \in 1..MaxThreads : WF_vars(w \in Workers /\ Worker(w))

-----------------------------------------------------------------------------
(* The colour stage of MandelbrotWorkerThread, for one iteration count *)

\* (double)n
FromInt(n) == RoundAt(PalettePrecision, n, 0)

\* The literals 1.0, 0.5 and 255.
One == Normal(1, 0)
Half == Normal(1, -1)
ByteMax == FromInt(255)

\* Faulty variant: the top of the spectrum is the last 24-bit value.
OffsetOneLess == Normal(16777215, 0)

\* The literal 16777216.0 that is added.
Offset == Normal(16777216, 0)

\* (COLORREF)(-16777216.0 / Iterations * iteration + 16777216.0), for
\* Iterations >= 1.  The sum is never below zero for iteration <= Iterations.
SpectrumIndex(iteration, Iterations) ==
    Truncate(AddAt(PalettePrecision,
                   MulAt(PalettePrecision,
                         DivAt(PalettePrecision, Normal(-16777216, 0),
                               FromInt(Iterations)),
                         FromInt(iteration)),
                   Offset))

\* The three masks, the two shifts and the sum over a uint32_t.
\* Faulty variant: the alpha byte is carried over.
ReverseRGBBytesWithAlpha(input) ==
    (input % 256) * 65536
        + ((input \div 256) % 256) * 256
        + ((input \div 65536) % 256)
        + (input \div 16777216) * 16777216

ReverseRGBBytes(input) ==
    (input % 256) * 65536
        + ((input \div 256) % 256) * 256
        + ((input \div 65536) % 256)

\* A stored pixel: its value, or, for a pixel of full saturation whose
\* sector arithmetic is not evaluated, the hue it has.
Evaluated(n) == [evaluated |-> TRUE, value |-> n, hue |-> <<>>]
OfHue(h) == [evaluated |-> FALSE, value |-> 0, hue |-> h]

\* The old RGB system.
IndexedPixel(iteration, Iterations) ==
    Evaluated(ReverseRGBBytes(SpectrumIndex(iteration, Iterations)))

\* log(log(log(n))) is not evaluated: the term keeps its argument.
LogLogLog(n) == <<n>>

\* The static local before the first call of mandelbrotHSV.
NotInitialised == <<>>

\* static double lllmax_iterations = log(log(log(max_iterations))): the
\* initialiser runs in the first call that reaches the declaration.
StaticInitialiser(lllmax_iterations, max_iterations) ==
    IF lllmax_iterations = NotInitialised THEN LogLogLog(max_iterations)
    ELSE lllmax_iterations

\* The hue is the quotient of the two terms times 360.0.
mandelbrotHSV(iteration, max_iterations, lllmax_iterations) ==
    IF iteration = max_iterations
    THEN [h |-> <<>>, s |-> Zero, v |-> Zero]
    ELSE [h |-> <<LogLogLog(iteration), lllmax_iterations>>,
          s |-> One, v |-> One]

\* The grey branch; the six sectors of a hue are not evaluated.
hsv2rgb(in) ==
    IF LessEqAt(PalettePrecision, in.s, Zero)
    THEN [grey |-> TRUE, r |-> in.v, g |-> in.v, b |-> in.v, h |-> <<>>]
    ELSE [grey |-> FALSE, r |-> Zero, g |-> Zero, b |-> Zero, h |-> in.h]

\* (int)(c * 255 + 0.5)
ChannelByte(c) ==
    Truncate(AddAt(PalettePrecision, MulAt(PalettePrecision, c, ByteMax),
                   Half))

\* The new HSV system: the three channel bytes, shifted and added.
HSVPixel(iteration, Iterations, lllmax_iterations) ==
    LET rgb == hsv2rgb(mandelbrotHSV(iteration, Iterations,
                                     lllmax_iterations))
    IN  IF rgb.grey
        THEN Evaluated(ChannelByte(rgb.r) + ChannelByte(rgb.g) * 256
                           + ChannelByte(rgb.b) * 65536)
        ELSE OfHue(rgb.h)

\* The budgets tried, and for a budget the counts tried: the small ones and
\* the budget itself.
Budgets == (1..MaxIterations) \cup {DefaultIterations}
Counts(n) == {k \in 0..MaxIterations : k <= n} \cup {n}

\* The program starts with the default budget and scheme; mandelbrotHSV has
\* not been called.
PaletteInit ==
    /\ MaxPixel = 0
    /\ Slices = 1
    /\ Threads = 1
    /\ pc = "idle"
    /\ RenderStart
    /\ kernel = KernelIdle
    /\ session = SessionIdle
    /\ palette = [pc |-> "ready", Iterations |-> DefaultIterations,
                  bUseHSV |-> TRUE, lllmax_iterations |-> NotInitialised,
                  iteration |-> 0, Pixel |-> OfHue(<<>>)]

\* A pixel of a render with the old RGB system.
StoreIndexed ==
    /\ palette.pc # "idle"
    /\ ~palette.bUseHSV
    /\ \E k \in Counts(palette.Iterations) :
          palette' = [palette EXCEPT
                         !.pc = "stored", !.iteration = k,
                         !.Pixel = IndexedPixel(k, palette.Iterations)]
    /\ UNCHANGED <<renderVars, kernel, session>>

\* A pixel of a render with the new HSV system.
StoreHSV ==
    /\ palette.pc # "idle"
    /\ palette.bUseHSV
    /\ \E k \in Counts(palette.Iterations) :
          LET lllmax == StaticInitialiser(palette.lllmax_iterations,
                                          palette.Iterations)
          IN  palette' = [palette EXCEPT
                             !.pc = "stored", !.iteration = k,
                             !.lllmax_iterations = lllmax,
                             !.Pixel = HSVPixel(k, palette.Iterations,
                                                lllmax)]
    /\ UNCHANGED <<renderVars, kernel, session>>

\* Between two renders the Parameters dialog stores a budget and a scheme.
PaletteParameters ==
    /\ palette.pc # "idle"
    /\ \E n \in Budgets, h \in BOOLEAN :
          /\ <<n, h>> # <<palette.Iterations, palette.bUseHSV>>
          /\ palette' = [palette EXCEPT !.pc = "ready", !.Iterations = n,
                                        !.bUseHSV = h]
    /\ UNCHANGED <<renderVars, kernel, session>>

PaletteNext ==
    \/ StoreIndexed
    \/ StoreHSV
    \/ PaletteParameters

PaletteSpec == PaletteInit /\ [][PaletteNext]_vars

-----------------------------------------------------------------------------
(* hsv2rgb on its own: one call on one colour, the hue a number. *)

\* The hues tried, in degrees: below zero, as mandelbrotHSV gives for the
\* counts whose triple logarithm is negative, from 0 to 360, and above.
Hues == {30 * k : k \in -4..14}

\* The saturations and the values tried.
Saturations == {Neg(One), Zero, Half, One}
Values == {Zero, Half, One}

\* The assignments of the switch: case 0 to case 4, and case 5 with default.
SectorAssignment(i, v, p, q, t) ==
    IF i = 0 THEN [r |-> v, g |-> t, b |-> p]
    ELSE IF i = 1 THEN [r |-> q, g |-> v, b |-> p]
    ELSE IF i = 2 THEN [r |-> p, g |-> v, b |-> t]
    ELSE IF i = 3 THEN [r |-> p, g |-> q, b |-> v]
    ELSE IF i = 4 THEN [r |-> t, g |-> p, b |-> v]
    ELSE [r |-> v, g |-> p, b |-> q]

\* hh = in.h; if (hh >= 360.0) hh = 0.0; hh /= 60.0;
SixthsOfTurn(h) ==
    IF LessEqAt(PalettePrecision, FromInt(360), h) THEN Zero
    ELSE DivAt(PalettePrecision, h, FromInt(60))

\* hsv2rgb for a hue that is a number: the locals at the switch and the
\* colour returned.  case is the label the switch jumps to.
hsv2rgbLocals(in) ==
    LET hh == SixthsOfTurn(in.h)
        i == Truncate(hh)
        ff == SubAt(PalettePrecision, hh, FromInt(i))
        p == MulAt(PalettePrecision, in.v,
                   SubAt(PalettePrecision, One, in.s))
        q == MulAt(PalettePrecision, in.v,
                   SubAt(PalettePrecision, One,
                         MulAt(PalettePrecision, in.s, ff)))
        t == MulAt(PalettePrecision, in.v,
                   SubAt(PalettePrecision, One,
                         MulAt(PalettePrecision, in.s,
                               SubAt(PalettePrecision, One, ff))))
    IN  IF LessEqAt(PalettePrecision, in.s, Zero)
        THEN [grey |-> TRUE, case |-> 0, p |-> Zero, q |-> Zero, t |-> Zero,
              out |-> [r |-> in.v, g |-> in.v, b |-> in.v]]
        ELSE [grey |-> FALSE, case |-> IF i \in 0..4 THEN i ELSE 5,
              p |-> p, q |-> q, t |-> t,
              out |-> SectorAssignment(i, in.v, p, q, t)]

\* hsv2rgb is about to be called on a colour.
HsvInit ==
    /\ MaxPixel = 0
    /\ Slices = 1
    /\ Threads = 1
    /\ pc = "idle"
    /\ RenderStart
    /\ kernel = KernelIdle
    /\ session = SessionIdle
    /\ \E h \in Hues, s \in Saturations, v \in Values :
          palette = [pc |-> "called", h |-> h, s |-> s, v |-> v,
                     locals |-> <<>>]

\* The call returns.
HsvReturn ==
    /\ palette.pc = "called"
    /\ palette' = [palette EXCEPT
                      !.pc = "returned",
                      !.locals = hsv2rgbLocals([h |-> FromInt(palette.h),
                                                s |-> palette.s,
                                                v |-> palette.v])]
    /\ UNCHANGED <<renderVars, kernel, session>>

HsvNext == HsvReturn

HsvSpec == HsvInit /\ [][HsvNext]_vars

-----------------------------------------------------------------------------
(* ReverseRGBBytes on its own: one call on one word. *)

\* The values tried for the red, green and blue bytes of a word, and for
\* its alpha byte.  The words are kept below 2^31, the range of the
\* integers of the model checker; the masks of ReverseRGBBytes treat bit 31
\* as they treat bits 24 to 30.
ChannelBytes == {0, 1, 128, 255}
AlphaBytes == {0, 1, 127}

\* The uint32_t with the given bytes, most significant first.
Word(a, b2, b1, b0) == a * 16777216 + b2 * 65536 + b1 * 256 + b0

Words ==
    {Word(a, b2, b1, b0) : a \in AlphaBytes, b2 \in ChannelBytes,
                           b1 \in ChannelBytes, b0 \in ChannelBytes}

\* ReverseRGBBytes is about to be called on a word.
ReverseInit ==
    /\ MaxPixel = 0
    /\ Slices = 1
    /\ Threads = 1
    /\ pc = "idle"
    /\ RenderStart
    /\ kernel = KernelIdle
    /\ session = SessionIdle
    /\ \E n \in Words :
          palette = [pc |-> "called", input |-> n, output |-> 0]

\* The call returns.
ReverseReturn ==
    /\ palette.pc = "called"
    /\ palette' = [palette EXCEPT !.pc = "returned",
                                  !.output = ReverseRGBBytes(palette.input)]
    /\ UNCHANGED <<renderVars, kernel, session>>

ReverseNext == ReverseReturn

ReverseSpec == ReverseInit /\ [][ReverseNext]_vars

-----------------------------------------------------------------------------
(* The parameters, the recall stack and the parameter file: the handlers of *)
(* WndProc and of Parameters that read or write them.  A coordinate is an   *)
(* integer number of hundredths; a BOOL is the int it is.                   *)

\* The viewport held by a record with the four bounds.
View(t) == <<t.dxMin, t.dxMax, t.dyMin, t.dyMax>>

\* The ten parameters held by a record, in the order of their declaration.
Parameters(t) ==
    <<t.dxMin, t.dxMax, t.dyMin, t.dyMax, t.Iterations, t.Slices, t.Threads,
      t.bShowAxes, t.bUseHSV, t.bUseTTMath>>

\* Faulty variant: the new node goes under the stack.
PushAtBottom(q, v) == Append(q, v)

\* QuadDoubleStack::push: the new node becomes _top.
Push(q, v) == <<v>> \o q

\* QuadDoubleStack::pop on a stack that is not empty: _top is unlinked.
Pop(q) == Tail(q)

\* What a local variable that was never assigned can hold: the fill pattern
\* 0xCCCCCCCC of a debug build's stack frame, or zero.
IndeterminateLocal == {-858993460, 0}

\* The initial values of the ten parameters.
Defaults ==
    [dxMin |-> -200, dxMax |-> 47, dyMin |-> -112, dyMax |-> 112,
     Iterations |-> DefaultIterations, Slices |-> 5000, Threads |-> 12,
     bShowAxes |-> 0, bUseHSV |-> 1, bUseTTMath |-> 0]

\* Other values in range: the smallest counts, the largest pool, the
\* other setting of each flag.
Alternative ==
    [Defaults EXCEPT !.Iterations = 1, !.Slices = 1, !.Threads = 64,
                     !.bShowAxes = 1, !.bUseHSV = 0, !.bUseTTMath = 1]

\* The records the user types or opens: the two above, another viewport,
\* and records with one field or two out of range.
Candidates ==
    {Defaults, Alternative,
     [Defaults EXCEPT !.dxMax = 112],
     [Defaults EXCEPT !.dxMin = 47],
     [Defaults EXCEPT !.dyMin = 112],
     [Defaults EXCEPT !.dxMax = 112, !.dyMin = 112],
     [Alternative EXCEPT !.Iterations = 0],
     [Alternative EXCEPT !.Slices = 0],
     [Alternative EXCEPT !.Threads = 0],
     [Alternative EXCEPT !.Threads = 65]}

\* WriteFile, ten times: the bytes of the file, field by field.
Written(t) ==
    <<t.dxMin, t.dxMax, t.dyMin, t.dyMax, t.Iterations, t.Slices, t.Threads,
      t.bShowAxes, t.bUseHSV, t.bUseTTMath>>

\* Files that File Save did not write: full records, and records that
\* end after the ninth field.
ForeignFiles ==
    {Written(t) : t \in Candidates}
        \cup {SubSeq(Written(t), 1, 9) : t \in Candidates}

\* The files File Open can be pointed at.
Files == (IF session.file = <<>> THEN {} ELSE {session.file}) \cup ForeignFiles

\* ReadFile into the i-th temporary.  At the end of the file ReadFile
\* returns TRUE and stores nothing: the temporary keeps what it held.
ReadField(f, i, held) == IF i <= Len(f) THEN f[i] ELSE held[i]

\* The ten reads, in their order.
Temporaries(f, held) ==
    [dxMin |-> ReadField(f, 1, held), dxMax |-> ReadField(f, 2, held),
     dyMin |-> ReadField(f, 3, held), dyMax |-> ReadField(f, 4, held),
     Iterations |-> ReadField(f, 5, held), Slices |-> ReadField(f, 6, held),
     Threads |-> ReadField(f, 7, held), bShowAxes |-> ReadField(f, 8, held),
     bUseHSV |-> ReadField(f, 9, held), bUseTTMath |-> ReadField(f, 10, held)]

\* Faulty variant: the pool size has no upper bound.
BadFileAnyPool(bReadOK, t) ==
    \/ ~bReadOK
    \/ t.dxMin >= t.dxMax
    \/ t.dyMin >= t.dyMax
    \/ t.Iterations < 1
    \/ t.Slices < 1
    \/ t.Threads < 1

\* Validate the reads.
BadFile(bReadOK, t) ==
    \/ ~bReadOK
    \/ t.dxMin >= t.dxMax
    \/ t.dyMin >= t.dyMax
    \/ t.Iterations < 1
    \/ t.Slices < 1
    \/ t.Threads < 1
    \/ t.Threads > 64

\* The message boxes of Parameters, case IDOK, for a field that is empty or
\* not a number.
EnterNumber ==
    <<"Enter number for X Min.", "Enter number for X Max.",
      "Enter number for Y Min.", "Enter number for Y Max.",
      "Enter number for Iterations.", "Enter number for Slices.",
      "Enter number for Threads.">>

\* The checks of Parameters, case IDOK, on the numbers entered: the message
\* of the first one that fails, or none.
OutOfRange(t) ==
    IF t.dxMin >= t.dxMax THEN "X Min must be less than X Max."
    ELSE IF t.dxMax >= t.dyMax THEN "Y Min must be less than Y Max."
    ELSE IF t.Iterations <= 0 THEN "Iterations must be greater than zero."
    ELSE IF t.Slices <= 0 THEN "Slices must be greater than zero."
    ELSE IF t.Threads <= 0 \/ t.Threads >= 65
    THEN "Threads must be greater than zero and less than 65."
    ELSE ""

\* The message boxes of Parameters.
DialogMessages ==
    {EnterNumber[i] : i \in 1..7} \cup ({OutOfRange(t) : t \in Candidates} \ {""})

\* The Parameters dialog is open: its last OK ended in a message box.
DialogOpen == session.outcome \in DialogMessages

\* The assignments of the ten parameters from a record.
Commit(t) ==
    [session EXCEPT
        !.dxMin = t.dxMin, !.dxMax = t.dxMax, !.dyMin = t.dyMin,
        !.dyMax = t.dyMax, !.Iterations = t.Iterations, !.Slices = t.Slices,
        !.Threads = t.Threads, !.bShowAxes = t.bShowAxes,
        !.bUseHSV = t.bUseHSV, !.bUseTTMath = t.bUseTTMath]

\* The viewports the mouse handlers can compute: the lower bound below the
\* upper one on both axes, as the arithmetic of a zoom or a move gives.
Viewports ==
    {View(t) : t \in {c \in Candidates :
                          c.dxMin < c.dxMax /\ c.dyMin < c.dyMax}}

\* qds->push(hWnd, dxMin, dxMax, dyMin, dyMax), the four assignments of
\* the new bounds and InvalidateRect.
MoveTo(v, how) ==
    [session EXCEPT
        !.qds = Push(session.qds, View(session)),
        !.dxMin = v[1], !.dxMax = v[2], !.dyMin = v[3], !.dyMax = v[4],
        !.outcome = how, !.invalidated = TRUE,
        !.trail = Append(session.trail, v)]

\* The program has started: the defaults, an empty recall stack, no file
\* saved yet.
SessionInit ==
    /\ MaxPixel = 0
    /\ Slices = 1
    /\ Threads = 1
    /\ pc = "idle"
    /\ RenderStart
    /\ kernel = KernelIdle
    /\ palette = PaletteIdle
    /\ session = [pc |-> "ready",
                  dxMin |-> Defaults.dxMin, dxMax |-> Defaults.dxMax,
                  dyMin |-> Defaults.dyMin, dyMax |-> Defaults.dyMax,
                  Iterations |-> Defaults.Iterations,
                  Slices |-> Defaults.Slices, Threads |-> Defaults.Threads,
                  bShowAxes |-> Defaults.bShowAxes,
                  bUseHSV |-> Defaults.bUseHSV,
                  bUseTTMath |-> Defaults.bUseTTMath,
                  qds |-> <<>>, file |-> <<>>, outcome |-> "started",
                  invalidated |-> TRUE, trail |-> <<View(Defaults)>>]

\* A handler of the main window can run: no dialog is open and, for one
\* that pushes, the recall stack has room.
Ready == session.pc = "ready" /\ ~DialogOpen
Room == Len(session.qds) < MaxDepth

\* WM_MOUSEWHEEL: zoom in or out about the mouse position.
MouseWheel ==
    /\ Ready /\ Room
    /\ \E v \in Viewports : session' = MoveTo(v, "wheel")
    /\ UNCHANGED <<renderVars, kernel, palette>>

\* WM_LBUTTONUP, the box is a point: the viewport is centred on the click.
Click ==
    /\ Ready /\ Room
    /\ \E v \in Viewports : session' = MoveTo(v, "click")
    /\ UNCHANGED <<renderVars, kernel, palette>>

\* WM_LBUTTONUP, the box is a line: the drag is dropped.
MalformedDrag ==
    /\ Ready
    /\ session' = [session EXCEPT !.outcome = "malformed",
                                  !.invalidated = FALSE]
    /\ UNCHANGED <<renderVars, kernel, palette>>

\* WM_LBUTTONUP, the box has an area: the viewport becomes the box.
DragZoom ==
    /\ Ready /\ Room
    /\ \E v \in Viewports : session' = MoveTo(v, "drag")
    /\ UNCHANGED <<renderVars, kernel, palette>>

\* Faulty variant: the window is invalidated whatever pop returned.
InvalidateAlways(popped) == TRUE

\* if (qds->pop(...)) InvalidateRect(hWnd, NULL, true);
InvalidateIfPopped(popped) == popped

\* WM_RBUTTONDOWN: pop, and InvalidateRect when pop returned true.
RightClick ==
    /\ Ready
    /\ IF session.qds = <<>>
       THEN session' = [session EXCEPT
                           !.outcome = "Recall stack is empty!",
                           !.invalidated = InvalidateIfPopped(FALSE)]
       ELSE session' = [session EXCEPT
                           !.dxMin = Head(session.qds)[1],
                           !.dxMax = Head(session.qds)[2],
                           !.dyMin = Head(session.qds)[3],
                           !.dyMax = Head(session.qds)[4],
                           !.qds = Pop(session.qds),
                           !.outcome = "recalled",
                           !.invalidated = InvalidateIfPopped(TRUE),
                           !.trail = SubSeq(session.trail, 1,
                                            Len(session.trail) - 1)]
    /\ UNCHANGED <<renderVars, kernel, palette>>

\* ID_FILE_OPEN on file f, when ReadFile returns bReadOK and the
\* temporaries held the values of held before the reads.  A file that
\* cannot be read leaves every temporary as it was.
OpenFile(f, bReadOK, held) ==
    LET t == Temporaries(f, held)
    IN  /\ Ready
        /\ IF BadFile(bReadOK, t)
           THEN session' = [session EXCEPT !.outcome = "Bad .mbf file!",
                                           !.invalidated = FALSE]
           ELSE /\ Room
                /\ session' = [Commit(t) EXCEPT
                                  !.qds = Push(session.qds, View(session)),
                                  !.outcome = "opened", !.invalidated = TRUE,
                                  !.trail = Append(session.trail, View(t))]
        /\ UNCHANGED <<renderVars, kernel, palette>>

FileOpen ==
    \/ \E f \in Files :
          \E held \in [(Len(f) + 1)..10 -> IndeterminateLocal] :
              OpenFile(f, TRUE, held)
    \/ OpenFile(<<>>, FALSE, [i \in 1..10 |-> 0])

\* ID_FILE_SAVE: the ten parameters are written.
FileSave ==
    /\ Ready
    /\ session' = [session EXCEPT !.file = Written(session),
                                  !.outcome = "saved", !.invalidated = FALSE]
    /\ UNCHANGED <<renderVars, kernel, palette>>

\* IDM_PARAMETERS and Parameters, case IDOK: a field is empty or not a
\* number (blank is the first such), or the record t was entered.  A message
\* box leaves the dialog open; otherwise the record is stored, the dialog
\* ends and the window is invalidated.
ParametersOK ==
    /\ session.pc = "ready"
    /\ \/ \E blank \in 1..7 :
              session' = [session EXCEPT !.outcome = EnterNumber[blank],
                                         !.invalidated = FALSE]
       \/ \E t \in Candidates :
              IF OutOfRange(t) # ""
              THEN session' = [session EXCEPT !.outcome = OutOfRange(t),
                                              !.invalidated = FALSE]
              ELSE /\ Room
                   /\ session' = [Commit(t) EXCEPT
                                     !.qds = Push(session.qds, View(session)),
                                     !.outcome = "parameters",
                                     !.invalidated = TRUE,
                                     !.trail = Append(session.trail, View(t))]
    /\ UNCHANGED <<renderVars, kernel, palette>>

\* IDM_PARAMETERS and Parameters, case IDCANCEL.
ParametersCancel ==
    /\ session.pc = "ready"
    /\ session' = [session EXCEPT !.outcome = "cancelled",
                                  !.invalidated = TRUE]
    /\ UNCHANGED <<renderVars, kernel, palette>>

SessionNext ==
    \/ MouseWheel
    \/ Click
    \/ MalformedDrag
    \/ DragZoom
    \/ RightClick
    \/ FileOpen
    \/ FileSave
    \/ ParametersOK
    \/ ParametersCancel

SessionSpec == SessionInit /\ [][SessionNext]_vars

-----------------------------------------------------------------------------
(* The paint hold: WM_KEYDOWN and WM_KEYUP for the shift key, and the test *)
(* at the top of WM_PAINT.  shift is the key as the messages handled so    *)
(* far leave it; invalid says that the window has an update region, so     *)
(* that a WM_PAINT is due; suppressed, requested, renders and holds are    *)
(* history.                                                                *)

\* Faulty variant: WM_PAINT never holds.
HoldIgnored == FALSE

\* if (bHoldPainting)
HoldPainting == session.bHoldPainting

\* The window is up, painted, and no key is down.
HoldInit ==
    /\ MaxPixel = 0
    /\ Slices = 1
    /\ Threads = 1
    /\ pc = "idle"
    /\ RenderStart
    /\ kernel = KernelIdle
    /\ palette = PaletteIdle
    /\ session = [pc |-> "window", shift |-> FALSE, bHoldPainting |-> FALSE,
                  bPaintingHeld |-> FALSE, invalid |-> FALSE,
                  suppressed |-> FALSE, requested |-> FALSE,
                  renders |-> 0, holds |-> 0]

\* WM_KEYDOWN with VK_SHIFT: the key goes down, or repeats while it is down.
KeyDownShift ==
    /\ session.pc = "window"
    /\ session.shift \/ session.holds < MaxHolds
    /\ session' = [session EXCEPT
                      !.shift = TRUE, !.bHoldPainting = TRUE,
                      !.suppressed = session.shift /\ session.suppressed,
                      !.holds = IF session.shift THEN @ ELSE @ + 1]
    /\ UNCHANGED <<renderVars, kernel, palette>>

\* WM_KEYUP with VK_SHIFT.
KeyUpShift ==
    /\ session.pc = "window"
    /\ session.shift
    /\ session' = [session EXCEPT
                      !.shift = FALSE, !.bHoldPainting = FALSE,
                      !.bPaintingHeld = FALSE,
                      !.invalid = session.invalid \/ session.bPaintingHeld,
                      !.requested = session.bPaintingHeld]
    /\ UNCHANGED <<renderVars, kernel, palette>>

\* InvalidateRect by another handler, or the window is resized or uncovered.
InvalidateWindow ==
    /\ session.pc = "window"
    /\ ~session.invalid
    /\ session' = [session EXCEPT !.invalid = TRUE]
    /\ UNCHANGED <<renderVars, kernel, palette>>

\* WM_PAINT: the hold, which leaves the update region as it is, or
\* BeginPaint and the render.
Paint ==
    /\ session.pc = "window"
    /\ session.invalid
    /\ IF HoldPainting
       THEN session' = [session EXCEPT !.bPaintingHeld = TRUE,
                                       !.suppressed = TRUE]
       ELSE /\ session.renders < MaxRenders
            /\ session' = [session EXCEPT !.invalid = FALSE,
                                          !.renders = @ + 1]
    /\ UNCHANGED <<renderVars, kernel, palette>>

HoldNext ==
    \/ KeyDownShift
    \/ KeyUpShift
    \/ InvalidateWindow
    \/ Paint

HoldSpec == HoldInit /\ [][HoldNext]_vars

-----------------------------------------------------------------------------
(* ApplicationRegistry, as InitInstance and WM_DESTROY use it: one object  *)
(* from new to delete.  opened is history: the subkeys the registry was    *)
(* accessed with.                                                          *)

\* The calls of Init that can fail, in their order.  The tests of the
\* results of new are left out: new does not return NULL.
InitCalls ==
    <<"GetModuleFileName", "GetFileVersionInfoSize", "GetFileVersionInfo",
      "VerQueryValue Translation", "StringCchPrintf CompanyName",
      "VerQueryValue CompanyName", "StringCchPrintf ProductName",
      "VerQueryValue ProductName", "StringCchPrintf ProductVersion",
      "VerQueryValue ProductVersion", "StringCchPrintf Subkey">>

\* The subkey before Init has built it, and the one it builds.
NoSubKey == ""
BuiltSubKey == "Software\\Company\\Product\\Version"

\* The handle of the main window: not zero.
hWndMain == 1

\* What the registry holds under a subkey of HKEY_CURRENT_USER for the
\* entry WindowPlacement.  The empty subkey names HKEY_CURRENT_USER itself,
\* which is always there.
Stored == {"no key", "no value", "other size", "placement"}
Registries ==
    {r \in [{NoSubKey, BuiltSubKey} -> Stored] : r[NoSubKey] # "no key"}

\* ApplicationRegistry::ApplicationRegistry
Constructed(caller, registry) ==
    [pc |-> "constructed", caller |-> caller, _hWnd |-> 0,
     _psRegistrySubKey |-> NoSubKey, _isOK |-> TRUE,
     _LastAPICallLine |-> "", returned |-> FALSE, opened |-> <<>>,
     registry |-> registry]

\* ApplicationRegistry::Init(hWnd) when the call numbered failing fails
\* (0: none does).
InitOf(o, hWnd, failing) ==
    IF o._hWnd # 0 THEN [o EXCEPT !.returned = TRUE]
    ELSE IF failing = 0
    THEN [o EXCEPT !._hWnd = hWnd, !._psRegistrySubKey = BuiltSubKey,
                   !._LastAPICallLine = InitCalls[Len(InitCalls)],
                   !.returned = TRUE]
    ELSE [o EXCEPT !._hWnd = hWnd, !._isOK = FALSE,
                   !._LastAPICallLine = InitCalls[failing],
                   !.returned = FALSE]

\* ApplicationRegistry::LoadMemoryBlock: the test of _hWnd, RegOpenKeyEx on
\* the subkey, the query of the size and the query of the value, which
\* fails when read is false.
LoadOf(o, read) ==
    LET stored == o.registry[o._psRegistrySubKey] IN
    IF o._hWnd = 0
    THEN [o EXCEPT !._isOK = FALSE, !._LastAPICallLine = "_hWnd",
                   !.returned = FALSE]
    ELSE [o EXCEPT !.opened = Append(@, o._psRegistrySubKey),
                   !._LastAPICallLine =
                       IF stored = "no key" THEN "RegOpenKeyEx"
                       ELSE IF stored = "placement" THEN "RegQueryValueEx"
                       ELSE "RegQueryValueEx size",
                   !.returned = stored = "placement" /\ read]

\* ApplicationRegistry::SaveMemoryBlock: the test of _hWnd, RegCreateKeyEx
\* on the subkey and RegSetValueEx; failing names the call that fails.
SaveOf(o, failing) ==
    LET k == o._psRegistrySubKey IN
    IF o._hWnd = 0
    THEN [o EXCEPT !._isOK = FALSE, !._LastAPICallLine = "_hWnd",
                   !.returned = FALSE]
    ELSE IF failing = "RegCreateKeyEx"
    THEN [o EXCEPT !.opened = Append(@, k), !._isOK = FALSE,
                   !._LastAPICallLine = failing, !.returned = FALSE]
    ELSE IF failing = "RegSetValueEx"
    THEN [o EXCEPT !.opened = Append(@, k), !._isOK = FALSE,
                   !._LastAPICallLine = failing, !.returned = FALSE,
                   !.registry[k] = IF @ = "no key" THEN "no value" ELSE @]
    ELSE [o EXCEPT !.opened = Append(@, k),
                   !._LastAPICallLine = "RegSetValueEx",
                   !.returned = TRUE, !.registry[k] = "placement"]

\* new ApplicationRegistry in InitInstance or in WM_DESTROY.
RegistryInit ==
    /\ MaxPixel = 0
    /\ Slices = 1
    /\ Threads = 1
    /\ pc = "idle"
    /\ RenderStart
    /\ kernel = KernelIdle
    /\ palette = PaletteIdle
    /\ \E caller \in {"InitInstance", "WM_DESTROY"}, registry \in Registries :
          session = Constructed(caller, registry)

\* The first call of Init: its result is tested by InitInstance and
\* dropped by WM_DESTROY.
CallInit ==
    /\ session.pc = "constructed"
    /\ \E failing \in 0..Len(InitCalls) :
          session' = [InitOf(session, hWndMain, failing) EXCEPT
                         !.pc = IF session.caller = "WM_DESTROY"
                                THEN "placement" ELSE "tested"]
    /\ UNCHANGED <<renderVars, kernel, palette>>

\* WM_DESTROY: GetWindowPlacement, then if (pAppReg->Init(hWnd)).
CallInitAgain ==
    /\ session.pc = "placement"
    /\ \E failing \in 0..Len(InitCalls) :
          session' = [InitOf(session, hWndMain, failing) EXCEPT
                         !.pc = "tested"]
    /\ UNCHANGED <<renderVars, kernel, palette>>

\* InitInstance: LoadMemoryBlock when Init returned true.
LoadMemoryBlock ==
    /\ session.pc = "tested"
    /\ session.caller = "InitInstance"
    /\ session.returned
    /\ \E read \in BOOLEAN :
          session' = [LoadOf(session, read) EXCEPT !.pc = "accessed"]
    /\ UNCHANGED <<renderVars, kernel, palette>>

\* WM_DESTROY: SaveMemoryBlock when Init returned true.
SaveMemoryBlock ==
    /\ session.pc = "tested"
    /\ session.caller = "WM_DESTROY"
    /\ session.returned
    /\ \E failing \in {"", "RegCreateKeyEx", "RegSetValueEx"} :
          session' = [SaveOf(session, failing) EXCEPT !.pc = "accessed"]
    /\ UNCHANGED <<renderVars, kernel, palette>>

\* delete pAppReg
DeleteRegistry ==
    /\ \/ session.pc = "accessed"
       \/ session.pc = "tested" /\ ~session.returned
    /\ session' = [session EXCEPT !.pc = "deleted"]
    /\ UNCHANGED <<renderVars, kernel, palette>>

RegistryNext ==
    \/ CallInit
    \/ CallInitAgain
    \/ LoadMemoryBlock
    \/ SaveMemoryBlock
    \/ DeleteRegistry

RegistrySpec == RegistryInit /\ [][RegistryNext]_vars

-----------------------------------------------------------------------------
(* Vocabulary of the properties *)

\* The slice loop and the last Enqueue are over.
SlicesBuilt == pc \notin {"enqueue", "oom"}

\* The wait loop has been left.
WaitLoopLeft == pc \in {"teardown", "abortcheck", "displayed", "aborted", "fault"}

\* The mutex, the thread handles and parameters and the queue are released.
Released == pc \in {"abortcheck", "displayed", "aborted", "fault"}

\* The handler has ended, one way or another.
RenderOver == pc \in {"displayed", "aborted", "fault"}

PoolStarted == \E w \in Workers : pcW[w] # "unborn"

InDequeue(w) == pcW[w] \in {"dequeue", "unlink", "unlock"}

\* Pixel indices of a half-open slice.
SliceIndices(id) ==
    {i \in Pixels : allocated[id].StartPixel <= i /\ i < allocated[id].EndPixel}

\* The slices that contain pixel index i.
Covering(i) == {id \in DOMAIN allocated : i \in SliceIndices(id)}

\* Positions of the log at which node id was returned.
Returns(id) == {k \in DOMAIN deqLog : deqLog[k].item = id}

\* Positions of the log at which worker w got a slice after bAbort was set.
LateReturns(w) ==
    {k \in DOMAIN deqLog : deqLog[k].thread = w /\ deqLog[k].aborted}

\* The slice of log position k is the one its worker is still working on.
InProgress(k) ==
    /\ pcW[deqLog[k].thread] \in {"unlock", "pixels"}
    /\ \A j \in DOMAIN deqLog : deqLog[j].thread = deqLog[k].thread => j <= k

-----------------------------------------------------------------------------
(* Properties *)

\* C1: the slices enqueued for a render cover every pixel index of
\* [0, MaxPixel) exactly once: no index is in no slice, none is in two.
C1_SlicesPartitionPixels ==
    SlicesBuilt => \A i \in Pixels : Cardinality(Covering(i)) = 1

\* C2: no index of the shared bitmap is stored to by two different workers
\* during one render.
C2_NoPixelWrittenByTwoWorkers ==
    \A i \in Pixels : Cardinality(writers[i]) <= 1

\* No node is returned by two successful Dequeue calls.
C3_ReturnedAtMostOnce ==
    \A id \in DOMAIN allocated : Cardinality(Returns(id)) <= 1

\* After an unaborted wait loop every node has been returned once.
C3_ReturnedOnceUnlessAborted ==
    (WaitLoopLeft /\ ~bAbort) =>
        \A id \in DOMAIN allocated : Cardinality(Returns(id)) = 1

\* With the pool started the queue only loses nodes, at its tail.
C3_NeverRequeued ==
    PoolStarted =>
        /\ allocated' = allocated
        /\ Len(queue') <= Len(queue)
        /\ queue' = SubSeq(queue, 1, Len(queue'))

\* C3: every enqueued slice is returned by at most one successful Dequeue,
\* by exactly one when the render ends without abort, and once the pool has
\* started nothing is allocated or linked into the queue again.
C3_SliceConsumedOnce ==
    /\ [](C3_ReturnedAtMostOnce /\ C3_ReturnedOnceUnlessAborted)
    /\ [][C3_NeverRequeued]_vars

\* C3 witness: an unaborted render has ended and two different workers each
\* got a slice.
C3_Witness ==
    /\ pc = "displayed"
    /\ \E j, k \in DOMAIN deqLog : deqLog[j].thread # deqLog[k].thread

\* C4: at most one worker is between WaitForSingleObject(hcsMutex) and
\* ReleaseMutex(hcsMutex), and none is while the orchestrator owns the mutex.
C4_DequeueMutualExclusion ==
    /\ Cardinality({w \in Workers : InDequeue(w)}) <= 1
    /\ \A w \in Workers : InDequeue(w) => hcsMutex = {w}

\* C4 witness: one worker is inside Dequeue with a slice in hand while
\* another waits for the mutex.
C4_Witness ==
    \E v, w \in Workers : pcW[v] = "unlink" /\ pcW[w] = "lock"

\* C5: a render during which the flag is never set ends displayed, with every
\* index of [0, MaxPixel) stored to by some worker.
C5_UnabortedRenderFullyPainted ==
    (RenderOver /\ ~bAbort) =>
        /\ pc = "displayed"
        /\ \A i \in Pixels : writers[i] # {}

\* C6: under fair scheduling every render eventually has all its workers
\* terminated and its wait loop left.
C6_RenderEventuallyFinishes == <>(WaitLoopLeft /\ AllSignaled)

\* C7: the wait loop is left, and the mutex, handles, parameters and queue
\* are released, only when every worker has returned.
C7_LeftOnlyWhenAllExited ==
    /\ WaitLoopLeft => \A w \in Workers : pcW[w] = "done"
    /\ Released => \A w \in Workers : pcW[w] = "done"

\* C7 witness: the resources are released after a wait that timed out at
\* least once (the flag is only ever set after a timeout).
C7_Witness == Released /\ bAbort /\ Threads > 1

\* C8 as stated: the flag is only ever set while some worker has not yet
\* terminated, and the bitmap is displayed exactly when it was not set.
C8_AbortOnlyWhilePoolRuns ==
    [][(~bAbort /\ bAbort') => ~AllSignaled]_vars

\* C8 amended: a render that has ended displayed its bitmap exactly when the
\* flag was not set during the wait loop; the flag may be set after the last
\* worker has terminated, and the render is then discarded all the same.
C8_DisplayedIffNotAborted ==
    RenderOver => ((pc = "displayed") <=> ~bAbort)

\* C8 witness: a render was discarded although every slice had been returned
\* before the flag was set.
C8_Witness ==
    /\ pc = "aborted"
    /\ Len(allocated) > 0
    /\ \A id \in DOMAIN allocated :
          \E k \in Returns(id) : ~deqLog[k].aborted

\* C9 as stated: once the flag is set no worker gets a slice from Dequeue.
C9_NoSliceTakenOnceAborted ==
    \A k \in DOMAIN deqLog : ~deqLog[k].aborted

\* A worker outside the path from the flag test to Dequeue stays outside it
\* once the flag is set.
C9_NoEntryOnceAborted ==
    \A w \in Workers :
        (bAbort /\ pcW[w] \notin {"lock", "dequeue", "unlink"}) =>
            pcW'[w] \notin {"lock", "dequeue", "unlink"}

\* C9 amended: once the flag is set no worker passes the flag test at the top
\* of its loop; a worker that had passed it before still gets one slice, so
\* each worker gets at most one slice after the flag is set.
C9_AtMostOneSliceOnceAborted ==
    /\ [](\A w \in Workers : Cardinality(LateReturns(w)) <= 1)
    /\ [][C9_NoEntryOnceAborted]_vars

\* C9 witness: a worker got a slice after the flag was set.
C9_Witness == \E k \in DOMAIN deqLog : deqLog[k].aborted

\* C10: a worker has stored to every index of every slice it was returned,
\* except the slice it is still working on, whether or not the flag is set.
C10_SliceFinishedBeforeLeaving ==
    \A k \in DOMAIN deqLog :
        ~InProgress(k) =>
            \A i \in SliceIndices(deqLog[k].item) :
                deqLog[k].thread \in writers[i]

\* C10 witness: a worker that took a slice of two or more pixels before the
\* flag was set has exited on the flag, with slices left in the queue.
C10_Witness ==
    \E k \in DOMAIN deqLog :
        /\ ~deqLog[k].aborted
        /\ ~InProgress(k)
        /\ bAbort
        /\ pcW[deqLog[k].thread] = "done"
        /\ LateReturns(deqLog[k].thread) = {}
        /\ Cardinality(SliceIndices(deqLog[k].item)) >= 2
        /\ ~QueueEmpty(queue)
        /\ \A j \in DOMAIN deqLog :
              deqLog[j].thread = deqLog[k].thread => j <= k

\* Positions of the log at which worker w got a slice.
ReturnsTo(w) == {k \in DOMAIN deqLog : deqLog[k].thread = w}

\* The flag was set before any slice was returned.
FlagBeforeAnyDequeue == bAbort /\ \A k \in DOMAIN deqLog : deqLog[k].aborted

\* A worker that tests the flag and finds it set returns, and that step
\* touches neither the queue nor the bitmap.
C11_ExitsOnFlag ==
    \A w \in Workers :
        (pcW[w] = "check" /\ bAbort /\ pcW'[w] # "check") =>
            /\ pcW'[w] = "done"
            /\ queue' = queue
            /\ deqLog' = deqLog
            /\ BitmapData' = BitmapData

\* With the flag set before any slice was returned the render is not
\* displayed, and a worker that was returned no slice stored no pixel.
C11_NothingDoneOnEarlyFlag ==
    FlagBeforeAnyDequeue =>
        /\ RenderOver => pc # "displayed"
        /\ \A w \in Workers :
              ReturnsTo(w) = {} => \A i \in Pixels : w \notin writers[i]

\* C11: a worker that reads the flag as set at the top of its loop returns at
\* once without calling Dequeue; when the flag is set before any slice is
\* dequeued the render is not displayed and such a worker has done no slice.
C11_FlagAtLoopTopEndsWorker ==
    /\ []C11_NothingDoneOnEarlyFlag
    /\ [][C11_ExitsOnFlag]_vars

\* C11 witness: the render was discarded with slices enqueued and none ever
\* returned: every worker left at its first flag test.
C11_Witness ==
    /\ pc \in {"aborted", "fault"}
    /\ Len(allocated) > 0
    /\ deqLog = <<>>

\* The flag changes only from false to true, in the step of the wait loop
\* that handles a message, and no worker moves in that step.
C12_OnlyPollSetsFlag ==
    bAbort' # bAbort =>
        /\ ~bAbort
        /\ bAbort'
        /\ pc = "poll"
        /\ pc' = "wait"
        /\ pcW' = pcW

\* C12: during a render the flag is false until the wait loop, changes only
\* from false to true, is never cleared, and is stored to only by the
\* orchestrator's wait loop, never by a worker.
C12_FlagSetOnceByOrchestrator ==
    /\ [](pc \in {"enqueue", "oom", "spawn"} => ~bAbort)
    /\ [][C12_OnlyPollSetsFlag]_vars

\* C12 witness: the wait loop handles a message with the flag already set.
C12_Witness == pc = "poll" /\ bAbort

\* C13: an unaborted render that is displayed shows, at every pixel index,
\* the colour that depends on the index and the parameters alone, whatever
\* the pool size and the interleaving.
C13_BufferDependsOnIndexOnly ==
    pc = "displayed" => \A i \in Pixels : BitmapData[i] = Colour(i)

\* Dequeue on an empty queue returns false and changes neither its
\* arguments nor the queue.
C14_FalseOnEmpty ==
    \A w \in Workers :
        (pcW[w] = "dequeue" /\ QueueEmpty(queue) /\ pcW'[w] # "dequeue") =>
            /\ pcW'[w] = "unlock"
            /\ ~bWorkToDo'[w]
            /\ wStartPixel'[w] = wStartPixel[w]
            /\ wEndPixel'[w] = wEndPixel[w]
            /\ queue' = queue
            /\ deqLog' = deqLog

\* The worker that was returned false releases the mutex and returns.
C14_ReturnsAfterFalse ==
    \A w \in Workers :
        (pcW[w] = "unlock" /\ ~bWorkToDo[w] /\ pcW'[w] # "unlock") =>
            /\ pcW'[w] = "done"
            /\ BitmapData' = BitmapData
            /\ writers' = writers

\* C14: Dequeue called on an empty queue returns false without waiting and
\* leaves its arguments and the queue as they were; the worker that called
\* it then returns without storing a pixel.
C14_EmptyDequeueEndsWorker ==
    /\ [](\A w \in Workers : pcW[w] = "dequeue" => ENABLED DequeueRead(w))
    /\ [][C14_FalseOnEmpty /\ C14_ReturnsAfterFalse]_vars

\* C14 witness: a worker has returned with the flag never set, that is
\* after Dequeue returned false.
C14_Witness ==
    \E w \in Workers : pcW[w] = "done" /\ ~bWorkToDo[w] /\ ~bAbort

\* C15: the count read for the progress text is the number of slices still
\* in the queue, give or take the slices being dequeued at that moment.
C15_ProgressCountsRemaining ==
    [][(pc = "wait" /\ pc' = "poll") =>
          LET inFlight == Cardinality({w \in Workers : InDequeue(w)})
          IN  \A s \in getSlices :
                  /\ Len(queue) - inFlight <= s
                  /\ s <= Len(queue) + inFlight]_vars

\* C16 as stated: each Dequeue returns the slice enqueued last among those
\* not yet returned.
C16_LastEnqueuedFirst ==
    \A k \in DOMAIN deqLog : deqLog[k].item = Len(allocated) - k + 1

\* C16 amended: slices are served first-enqueued-first: the list runs from
\* the newest node at _head to the oldest at _tail, and the k-th successful
\* Dequeue returns the k-th slice enqueued.
C16_FirstEnqueuedFirst ==
    /\ \A j \in DOMAIN queue : queue[j] = Len(allocated) - j + 1
    /\ \A k \in DOMAIN deqLog : deqLog[k].item = k

\* C16 witness: two slices have been returned out of three enqueued.
C16_Witness == Len(deqLog) >= 2 /\ Len(allocated) >= 3

\* C17: the orchestrator enqueues exactly Slices slices; all but the last
\* hold MaxPixel / Slices indices and the last holds the remainder as well.
C17_SlicesTilesOfEqualSize ==
    SlicesBuilt =>
        /\ Len(allocated) = Slices
        /\ \A id \in DOMAIN allocated :
              allocated[id].EndPixel - allocated[id].StartPixel =
                  IF id < Len(allocated) THEN PixelStepSize
                  ELSE PixelStepSize + (MaxPixel % Slices)

\* C18: the iteration count stays between 0 and the budget, so the loop
\* ends with 0 <= iteration <= Iterations, and with 0 when the budget is 0.
C18_CountWithinBudget ==
    /\ 0 <= kernel.iteration
    /\ kernel.iteration <= kernel.Iterations
    /\ (kernel.pc = "done" /\ kernel.Iterations = 0) => kernel.iteration = 0

\* C18 witness: a loop has ended on the radius test before its budget.
C18_Witness ==
    /\ kernel.pc = "done"
    /\ 0 < kernel.iteration
    /\ kernel.iteration < kernel.Iterations

\* C19: for the point 0 the orbit stays at 0 and the loop ends with
\* iteration = Iterations.
C19_OriginNeverEscapes ==
    (kernel.pc # "idle" /\ kernel.x0 = Zero /\ kernel.y0 = Zero) =>
        /\ kernel.x = Zero /\ kernel.y = Zero
        /\ kernel.x2 = Zero /\ kernel.y2 = Zero
        /\ kernel.pc = "done" => kernel.iteration = kernel.Iterations

\* C19 witness: the loop for the point 0 has ended with the largest budget.
C19_Witness ==
    /\ kernel.pc = "done"
    /\ kernel.x0 = Zero /\ kernel.y0 = Zero
    /\ kernel.Iterations = MaxIterations

\* x0^2 + y0^2 > 4 in exact arithmetic.
OutsideCircle(a, b) ==
    LET lo == Min(Min(2 * a.e, 2 * b.e), 0)
    IN  a.m * a.m * 2^(2 * a.e - lo) + b.m * b.m * 2^(2 * b.e - lo)
            > 4 * 2^(0 - lo)

\* x0 * x0 + y0 * y0 as the first pass computes it exceeds 4.0.
ComputedOutside(a, b) == ~LessEq(Add(Mul(a, a), Mul(b, b)), Four)

\* C20 as stated: every point with |c| > 2 ends the loop with iteration = 1
\* when the budget is 1 or more.
C20_OutsideEscapesAtOnce ==
    (/\ kernel.pc = "done"
     /\ kernel.Iterations >= 1
     /\ OutsideCircle(kernel.x0, kernel.y0)) => kernel.iteration = 1

\* C20 amended: a point ends the loop with iteration = 1, for a budget of 1
\* or more, when its squared magnitude as computed in double arithmetic
\* exceeds 4.0; a point outside the circle whose computed squared magnitude
\* rounds to 4.0 takes a second pass when the budget allows one.
C20_ComputedOutsideEscapesAtOnce ==
    (kernel.pc = "done" /\ kernel.Iterations >= 1) =>
        /\ ComputedOutside(kernel.x0, kernel.y0) => kernel.iteration = 1
        /\ (/\ OutsideCircle(kernel.x0, kernel.y0)
            /\ ~ComputedOutside(kernel.x0, kernel.y0)
            /\ kernel.Iterations >= 2) => kernel.iteration >= 2

\* C20 witness: the loop for x0 = 3, y0 = 0 has ended after one pass with a
\* budget that allowed more.
C20_Witness ==
    /\ kernel.pc = "done"
    /\ kernel.x0 = Normal(3, 0) /\ kernel.y0 = Zero
    /\ kernel.Iterations >= 2
    /\ kernel.iteration = 1

\* C21: a count equal to the budget is stored as black, packed value 0, by
\* the old RGB system and by the new HSV system, for every budget.
C21_BudgetCountIsBlack ==
    (palette.pc = "stored" /\ palette.iteration = palette.Iterations) =>
        palette.Pixel = Evaluated(0)

\* The old RGB system has stored black for the budget 3, whose quotient
\* -16777216.0 / 3 is rounded.
C21_Witness ==
    /\ palette.pc = "stored"
    /\ ~palette.bUseHSV
    /\ palette.Iterations = 3
    /\ palette.iteration = 3
    /\ palette.Pixel = Evaluated(0)

C23_NormalizerOfThisBudget ==
    (palette.pc = "stored" /\ palette.bUseHSV) =>
        palette.lllmax_iterations = LogLogLog(palette.Iterations)

\* From state k of the FPU loop on, every pass and every test of the loop
\* gives the values the TTMath operators give on the same operands: no
\* result of the FPU loop loses bits that the wider mantissa keeps.
RECURSIVE SameAtBothWidths(_)
SameAtBothWidths(k) ==
    /\ Add(k.x2, k.y2) = BigAdd(k.x2, k.y2)
    /\ WhileCondition(k) =>
          (Iterate(k) = TTIterate(k) /\ SameAtBothWidths(Iterate(k)))

\* C29: for every point of the grid, whose coordinates are exact doubles,
\* the FPU loop and the TTMath loop give the same iteration count.
C29_SameCountOnGrid ==
    kernel.pc = "done" =>
        kernel.iteration =
            TTMathCount(kernel.x0, kernel.y0, kernel.Iterations)

\* C29 as amended: the two loops give the same iteration count for every
\* point of the grid on which no operation of the FPU loop loses bits that
\* the TTMath operators keep; on other points the counts can differ.
C29_SameCountWhereNothingIsLost ==
    /\ (/\ kernel.pc = "done"
        /\ SameAtBothWidths(KernelStart(kernel.x0, kernel.y0,
                                        kernel.Iterations))) =>
           kernel.iteration =
               TTMathCount(kernel.x0, kernel.y0, kernel.Iterations)
    /\ (/\ kernel.pc = "done"
        /\ kernel.x0 = Normal(2, 0) /\ kernel.y0 = Normal(1, -2)
        /\ kernel.Iterations >= 2) =>
           /\ kernel.iteration = 2
           /\ TTMathCount(kernel.x0, kernel.y0, kernel.Iterations) = 1

\* Both loops have run two passes on a point off both axes without losing
\* a bit and have left on the radius test.
C29_Witness ==
    /\ kernel.pc = "done"
    /\ kernel.x0.m # 0 /\ kernel.y0.m # 0
    /\ SameAtBothWidths(KernelStart(kernel.x0, kernel.y0, kernel.Iterations))
    /\ kernel.iteration = 2
    /\ kernel.iteration < kernel.Iterations
    /\ TTMathCount(kernel.x0, kernel.y0, kernel.Iterations) = 2

\* A worker has called Dequeue, or is past it.
CalledDequeue(w) == pcW[w] \in {"dequeue", "unlink", "unlock", "pixels"}

\* C30: while the slices are enqueued no worker thread exists; the workers
\* are created while the orchestrator owns the mutex; and no worker calls
\* Dequeue before all Threads workers are created and the orchestrator has
\* released the mutex.
C30_EnqueueBeforeDequeue ==
    /\ pc = "enqueue" => (~PoolStarted /\ deqLog = <<>>)
    /\ pc = "spawn" => hcsMutex = {MainThread}
    /\ \A w \in Workers :
          (CalledDequeue(w) \/ deqLog # <<>>) =>
              /\ Thread = Threads
              /\ pc \notin {"enqueue", "oom", "spawn"}
              /\ MainThread \notin hcsMutex

\* The first of two workers is in Dequeue on a queue of two slices, the
\* second still waits for the mutex.
C30_Witness ==
    /\ Threads = 2
    /\ Len(allocated) >= 2
    /\ Len(queue) = Len(allocated)
    /\ pcW[1] = "dequeue"
    /\ pcW[2] = "lock"

\* The bounds a record of parameters has to keep.
InBounds(t) ==
    /\ t.dxMin < t.dxMax
    /\ t.dyMin < t.dyMax
    /\ t.Iterations >= 1
    /\ t.Slices >= 1
    /\ t.Threads >= 1
    /\ t.Threads <= 64

\* The last handler left the ten parameters and the recall stack as they
\* were and requested no repaint.
Untouched ==
    /\ Parameters(session') = Parameters(session)
    /\ session'.qds = session.qds
    /\ ~session'.invalidated

\* C24: the parameters the dialog has just stored on OK keep every bound:
\* xMin < xMax, yMin < yMax, iterations >= 1, tile count >= 1 and
\* 1 <= pool size <= 64.
C24_DialogStoresOnlyInBounds ==
    (session.pc = "ready" /\ session.outcome = "parameters")
        => InBounds(session)

\* C25: opening a file that holds a full record with a field out of bounds
\* changes none of the ten parameters, pushes nothing on the recall stack,
\* requests no repaint and reports the bad file.
C25_OutOfBoundsRecordRejected ==
    [][\A t \in Candidates :
          (~InBounds(t) /\ OpenFile(Written(t), TRUE, <<>>))
              => (Untouched /\ session'.outcome = "Bad .mbf file!")]_vars

\* C25 (witness): a file was rejected while the recall stack held an entry
\* and the parameters were not the initial ones.
C25_Witness ==
    /\ session.pc = "ready"
    /\ session.outcome = "Bad .mbf file!"
    /\ session.qds # <<>>
    /\ Parameters(session) # Parameters(Defaults)

\* C26: opening a file that is shorter than the ten fields changes none of
\* the ten parameters, pushes nothing, requests no repaint and reports the
\* bad file.
C26_ShortFileRejected ==
    [][\A f \in ForeignFiles :
          \A held \in [(Len(f) + 1)..10 -> IndeterminateLocal] :
              (Len(f) < 10 /\ OpenFile(f, TRUE, held))
                  => (Untouched /\ session'.outcome = "Bad .mbf file!")]_vars

\* C27: opening the file that File Save wrote leaves the ten parameters
\* equal to the ten values saved.
C27_OpenRestoresSaved ==
    [][(session.pc = "ready" /\ session.file # <<>>
          /\ OpenFile(session.file, TRUE, <<>>))
          => Parameters(session') = session.file]_vars

\* C28: the recall stack holds, most recent first, the viewports that led
\* to the current one, one entry for each change of the viewport that has
\* not been recalled; the current viewport is the last of them, and it is
\* the original one when the stack is empty.
C28_RecallStackIsTheWayBack ==
    session.pc = "ready" =>
        /\ Len(session.trail) = Len(session.qds) + 1
        /\ View(session) = session.trail[Len(session.trail)]
        /\ \A i \in 1..Len(session.qds) :
              session.qds[i] = session.trail[Len(session.trail) - i]
        /\ session.qds = <<>> => View(session) = View(Defaults)

\* C28 (witness): after two changes of the viewport a right click has
\* recalled the viewport before the second one, and the one before the
\* first, which differs from it, is on the stack.
C28_Witness ==
    /\ session.pc = "ready"
    /\ session.outcome = "recalled"
    /\ Len(session.qds) = 1
    /\ View(session) # session.qds[1]

\* C31: a worker that owns the mutex is inside its Dequeue call or at the
\* ReleaseMutex that follows it: it owns nothing while it waits, computes
\* and stores pixels, tests the flag, or after it has returned.
C31_MutexOwnedOnlyAroundDequeue ==
    \A w \in Workers : w \in hcsMutex => InDequeue(w)

\* C31 (witness): one worker is storing the pixels of a slice it took and
\* another has returned on an empty queue, and nobody owns the mutex.
C31_Witness ==
    \E w, v \in Workers :
        /\ pcW[w] = "pixels" /\ Pixel[w] > wStartPixel[w]
        /\ pcW[v] = "done" /\ ~bWorkToDo[v] /\ ~bAbort
        /\ hcsMutex = {}

\* The slice the last successful Dequeue of worker w returned.
LastReturnTo(w) ==
    LET ks == {k \in DOMAIN deqLog : deqLog[k].thread = w}
    IN  deqLog[CHOOSE k \in ks : \A j \in ks : j <= k].item

\* C32: a worker about to store a pixel stores it at an index of the slice
\* its last Dequeue returned, StartPixel <= Pixel < EndPixel, and inside
\* the buffer, 0 <= Pixel < MaxPixel; every index a worker has stored to
\* lies in a slice it was given.
C32_WritesInsideSliceAndBuffer ==
    /\ \A w \in Workers :
          (pcW[w] = "pixels" /\ MorePixels(w)) =>
              /\ \E k \in DOMAIN deqLog : deqLog[k].thread = w
              /\ LastReturnTo(w) = wItem[w]
              /\ allocated[wItem[w]] = WorkItem(wStartPixel[w], wEndPixel[w])
              /\ wStartPixel[w] <= Pixel[w]
              /\ Pixel[w] < wEndPixel[w]
              /\ 0 <= Pixel[w]
              /\ Pixel[w] < MaxPixel
    /\ \A i \in Pixels : \A w \in writers[i] :
          \E k \in DOMAIN deqLog :
              deqLog[k].thread = w /\ i \in SliceIndices(deqLog[k].item)

\* C32 (witness): a worker on its second slice is about to store the last
\* pixel of the buffer while another worker is in the middle of its slice.
C32_Witness ==
    \E w, v \in Workers :
        /\ w # v
        /\ pcW[w] = "pixels" /\ Pixel[w] = MaxPixel - 1
        /\ Cardinality({k \in DOMAIN deqLog : deqLog[k].thread = w}) >= 2
        /\ pcW[v] = "pixels" /\ Pixel[v] > wStartPixel[v] /\ MorePixels(v)

\* Byte i of a word: bits 8i to 8i + 7.
ByteOf(n, i) == (n \div 256^i) % 256

\* C33: the word ReverseRGBBytes returns has the red byte of its input
\* (bits 0-7) in bits 16-23 and the blue byte (bits 16-23) in bits 0-7, the
\* same green byte (bits 8-15) and a zero alpha byte (bits 24-31).
C33_RedAndBlueExchangedAlphaZero ==
    palette.pc = "returned" =>
        /\ ByteOf(palette.output, 0) = ByteOf(palette.input, 2)
        /\ ByteOf(palette.output, 2) = ByteOf(palette.input, 0)
        /\ ByteOf(palette.output, 1) = ByteOf(palette.input, 1)
        /\ ByteOf(palette.output, 3) = 0

\* C33 (witness): the call has returned for a word with four different
\* bytes, none of them zero.
C33_Witness ==
    /\ palette.pc = "returned"
    /\ palette.input = Word(127, 1, 128, 255)
    /\ palette.output = Word(0, 255, 128, 1)

\* The sector of a hue of h degrees, h an integer: floor(h / 60) mod 6.
StandardSector(h) == (h \div 60) % 6

\* C34: for a saturation above zero hsv2rgb takes the case of the sector
\* floor(hue / 60) mod 6 of the hue it is given and returns that sector's
\* assignment of v, p, q and t; for a saturation of zero or less it returns
\* (v, v, v).
C34_SectorIsFloorOfSixthsModSix ==
    palette.pc = "returned" =>
        IF palette.locals.grey
        THEN /\ LessEqAt(PalettePrecision, palette.s, Zero)
             /\ palette.locals.out
                    = [r |-> palette.v, g |-> palette.v, b |-> palette.v]
        ELSE /\ ~LessEqAt(PalettePrecision, palette.s, Zero)
             /\ palette.locals.case = StandardSector(palette.h)
             /\ palette.locals.out
                    = SectorAssignment(StandardSector(palette.h), palette.v,
                                       palette.locals.p, palette.locals.q,
                                       palette.locals.t)

\* C35: a WM_PAINT handled while the shift key is down starts no render
\* and sets the held flag; the WM_KEYUP of the shift key requests a repaint
\* exactly when a WM_PAINT was held back since the key went down, leaves
\* both flags false, and leaves the window with a paint due when one was
\* held back.
C35_HeldPaintIsRepaintedOnRelease ==
    [][/\ (Paint /\ session.shift) =>
              /\ session'.renders = session.renders
              /\ session'.bPaintingHeld
              /\ session'.invalid
       /\ KeyUpShift =>
              /\ session'.requested <=> session.suppressed
              /\ ~session'.bHoldPainting
              /\ ~session'.bPaintingHeld
              /\ session.suppressed => session'.invalid]_vars

\* C35 (witness): the shift key has been released after a paint was held
\* back; a repaint was requested and is due, and both flags are false.
C35_Witness ==
    /\ session.pc = "window"
    /\ ~session.shift
    /\ session.requested
    /\ session.invalid
    /\ session.renders >= 1
    /\ ~session.bHoldPainting
    /\ ~session.bPaintingHeld

\* C36: for every pixel count and every slice count of at least one the
\* slice loop ends: the orchestrator eventually is past the loop and the
\* last Enqueue.
C36_SliceLoopEnds == <>SlicesBuilt

\* C37: the destructor of the work queue never stores through a null
\* pointer, however many slices are still in the queue when the render
\* ends.
C37_DestructorNeverFaults == pc # "fault"

\* C38: when a call of Init has returned true the subkey is built, and
\* LoadMemoryBlock and SaveMemoryBlock never access the registry with the
\* subkey that was not built.
C38_InitTrueOnlyWhenSubKeyBuilt ==
    /\ (session.pc \in {"placement", "tested"} /\ session.returned)
           => session._psRegistrySubKey = BuiltSubKey
    /\ session.pc \in {"accessed", "deleted"}
           => \A k \in DOMAIN session.opened : session.opened[k] # NoSubKey

\* C39: a right click on an empty recall stack changes nothing: pop
\* reports the empty stack, the four bounds and every other parameter keep
\* their values, the stack stays empty and the window is not invalidated.
C39_RightClickOnEmptyStackChangesNothing ==
    [][(RightClick /\ session.qds = <<>>)
          => /\ session'.outcome = "Recall stack is empty!"
             /\ View(session') = View(session)
             /\ Parameters(session') = Parameters(session)
             /\ session'.qds = <<>>
             /\ ~session'.invalidated]_vars

\* A right click has found the stack empty and the window is ready for
\* the next message, not invalidated.
C39_Witness ==
    /\ session.outcome = "Recall stack is empty!"
    /\ session.qds = <<>>
    /\ ~session.invalidated
    /\ session.pc = "ready"


=============================================================================
